---- MODULE Spec2Model ----
(***************************************************************************)
(* A model of src/utiltities.js of Javascript-Barcode-Reader: the two      *)
(* binarizers (applySimpleThreshold, applyAdaptiveThreshold), the line     *)
(* extractor (getLines), the consensus merger (combineAllPossible) and the *)
(* image acquisition dispatch (getImageDataFromSource).                    *)
(*                                                                         *)
(* Arrays are functions over 0..n-1 so that the index arithmetic of the    *)
(* source is kept as written.  Greyscale values are thirds of integers in  *)
(* the source (v = (r+g+b)/3); the model carries 3*v, an integer, and      *)
(* every comparison is scaled accordingly, in exact arithmetic.            *)
(***************************************************************************)
EXTENDS Integers, Sequences, FiniteSets, TLC

VARIABLES
    data,          \* the pixel array the image functions mutate in place
    width,         \* image width in pixels
    height,        \* image height in pixels
    input,         \* the pixel array as the caller passed it (history)
    phase,         \* "raw", "simple" or "adaptive": binarizer applied to data
    linesDone,     \* getLines has returned
    lines,         \* the array getLines returned
    candidates,    \* the collection as the caller built it (history)
    results,       \* the array passed to combineAllPossible (sorted in place)
    mergeDone,     \* combineAllPossible has returned
    merged,        \* the string combineAllPossible returned
    source,        \* the source argument of getImageDataFromSource
    env,           \* the runtime: isNode, and whether the DOM call throws
    pc,            \* position of getImageDataFromSource
    calls,         \* settlement callbacks invoked so far, in order
    promise        \* state of the returned promise

vars == << data, width, height, input, phase, linesDone, lines,
           candidates, results, mergeDone, merged,
           source, env, pc, calls, promise >>

imageVars  == << data, width, height, input, phase, linesDone, lines >>
mergeVars  == << candidates, results, mergeDone, merged >>
sourceVars == << source, env, pc, calls, promise >>

-----------------------------------------------------------------------------
(* Bounds of the model.                                                    *)

MaxWidth   == 4      \* widest image of the binarizer specification
MaxHeight  == 2      \* tallest image of the binarizer specification
MaxOdd     == 3      \* most pixels of the second colour in such an image
MaxUWidth  == 12     \* widest uniform image
MaxUHeight == 3      \* tallest uniform image
MaxLWidth  == 5      \* widest image of the line extractor specification
MaxLHeight == 3      \* tallest image of the line extractor specification
MaxCands   == 2      \* most candidates in a collection
MaxStrLen  == 2      \* longest candidate

(* Program constants.                                                      *)

WHITE    == 255      \* v = 255
BLACK    == 0        \* v = 0
MIDPOINT == 127      \* v > 127
TPERCENT == 15       \* t = 0.15, in percent
BRACKET  == 4        \* s = floor(width / 4)

-----------------------------------------------------------------------------
(* Helpers on arrays.                                                      *)

Length(arr) == Cardinality(DOMAIN arr)

Max(a, b) == IF a > b THEN a ELSE b
Min(a, b) == IF a < b THEN a ELSE b

\* const channels = data.length / (width * height)
channels(d, w, h) == Length(d) \div (w * h)

-----------------------------------------------------------------------------
(* applySimpleThreshold                                                    *)

\* the comparison as v >= 127
simpleValueGE(r, g, b) == IF (r + g + b) >= 3 * MIDPOINT THEN WHITE ELSE BLACK
\* v = (r + g + b) / 3 ; v = v > 127 ? 255 : 0     (3v > 3*127)
simpleValue(r, g, b) == IF (r + g + b) > 3 * MIDPOINT THEN WHITE ELSE BLACK

\* The loop i = 0, channels, 2*channels, ... writes data[i], data[i+1],
\* data[i+2]; with 3 or more channels per pixel the writes of different
\* pixels do not overlap, and a fourth channel is left as it was.
applySimpleThreshold(d, w, h) ==
    LET ch == channels(d, w, h)
    IN  [i \in DOMAIN d |->
            IF i % ch < 3
            THEN LET p == i - (i % ch)
                 IN  simpleValue(d[p], d[p + 1], d[p + 2])
            ELSE d[i]]

-----------------------------------------------------------------------------
(* applyAdaptiveThreshold                                                  *)

\* const s = Math.floor(width / 4)
s(w) == w \div BRACKET
\* const s2 = Math.ceil(s / 2)
s2(w) == (s(w) + 1) \div 2

\* 3 * v for the pixel with pureIndex p: data[index]+data[index+1]+data[index+2]
grey3(d, ch, p) == d[p * ch] + d[p * ch + 1] + d[p * ch + 2]

\* the cell without the columns to its left
integralCellColumnOnly(i, prev, sum) == sum
\* integralImage[pureIndex] =
\*   i === 0 ? sum : integralImage[pureIndex - 1] + sum       (times 3)
integralCell(i, prev, sum) == IF i = 0 THEN sum ELSE prev + sum

\* The first pass, columns outermost: step k is column i = k div height,
\* row j = k mod height; sum restarts at 0 with each column.  ii is the
\* integral image so far (times 3), sum the running column sum (times 3).
RECURSIVE firstPass(_, _, _, _, _, _, _)
firstPass(d, w, h, ch, k, sum, ii) ==
    IF k >= w * h THEN ii
    ELSE LET i == k \div h
             j == k % h
             pureIndex == j * w + i
             newSum == (IF j = 0 THEN 0 ELSE sum) + grey3(d, ch, pureIndex)
             prev == IF i = 0 THEN 0 ELSE ii[pureIndex - 1]
         IN  firstPass(d, w, h, ch, k + 1, newSum,
                       [ii EXCEPT ![pureIndex] = integralCell(i, prev, newSum)])

\* const integralImage = new Array(width * height).fill(0), then the first pass
integralImage3(d, w, h) ==
    firstPass(d, w, h, channels(d, w, h), 0, 0, [p \in 0 .. (w * h - 1) |-> 0])

\* the clamped window of pixel (i, j)
window(w, h, i, j) ==
    [ x1 |-> Max(i - s2(w), 0),
      x2 |-> Min(i + s2(w), w - 1),
      y1 |-> Max(j - s2(w), 0),
      y2 |-> Min(j + s2(w), h - 1) ]

\* let count = (x2 - x1) * (y2 - y1)
count(w, h, i, j) ==
    LET win == window(w, h, i, j)
    IN  (win.x2 - win.x1) * (win.y2 - win.y1)

\* 3 * sum of the second pass: the four corner look-ups
windowSum3(ii, w, h, i, j) ==
    LET win == window(w, h, i, j)
    IN  ii[win.y2 * w + win.x2] - ii[win.y1 * w + win.x2]
        - ii[win.y2 * w + win.x1] + ii[win.y1 * w + win.x1]

\* v = 255 ; if (data[index] * count < sum * (1 - t)) v = 0
\* (both sides times 300: 3v * count * 100 < 3sum * (100 - 15))
adaptiveValue(g3, cnt, sum3) ==
    IF g3 * cnt * 100 < sum3 * (100 - TPERCENT) THEN BLACK ELSE WHITE

\* The second pass over an integral image ii: every pixel's three colour
\* channels get the pixel's threshold value.
secondPass(d, w, h, ch, ii) ==
    [i \in DOMAIN d |->
        IF i % ch < 3
        THEN LET p == i \div ch
             IN  adaptiveValue(grey3(d, ch, p),
                               count(w, h, p % w, p \div w),
                               windowSum3(ii, w, h, p % w, p \div w))
        ELSE d[i]]

\* Only data[index] is written; data[index + 1] and data[index + 2] are left.
adaptiveFirstChannelOnly(d, w, h) ==
    LET full == secondPass(d, w, h, channels(d, w, h), integralImage3(d, w, h))
    IN  [i \in DOMAIN d |-> IF i % channels(d, w, h) = 0 THEN full[i] ELSE d[i]]
applyAdaptiveThreshold(d, w, h) ==
    secondPass(d, w, h, channels(d, w, h), integralImage3(d, w, h))

-----------------------------------------------------------------------------
(* getLines                                                                *)

\* value = data[(row * width + col) * channels]
pixel(d, w, ch, row, col) == d[(row * w + col) * ch]

\* matches: the rows of the column whose first channel is 255
matches(d, w, h, col) ==
    LET ch == channels(d, w, h)
    IN  Cardinality({row \in 0 .. (h - 1) : pixel(d, w, ch, row, col) = WHITE})

\* bmp.push(matches > 1)
bmp(d, w, h) == [col \in 0 .. (w - 1) |-> matches(d, w, h, col) > 1]

\* value after the row loop: the pixel of the last row
lastValue(d, w, h, col) == pixel(d, w, channels(d, w, h), h - 1, col)

\* padding = { left: true, right: true } ;
\* if (value === 0) { if (col === 0) left = false ;
\*                    if (col === width - 1) right = false }
padding(d, w, h) ==
    [ left  |-> ~(lastValue(d, w, h, 0) = BLACK),
      right |-> ~(lastValue(d, w, h, w - 1) = BLACK) ]

\* The run-length loop from column col on, with the loop's locals count (cnt)
\* and curr and the runs pushed so far.  A run is pushed as its count; the
\* model keeps the colour curr had at the push beside it (history only).
RECURSIVE runLoop(_, _, _, _, _, _)
runLoop(b, w, col, cnt, curr, out) ==
    IF col >= w THEN out
    ELSE IF b[col] = curr
         THEN runLoop(b, w, col + 1, cnt + 1, curr,
                      IF col = w - 1
                      THEN Append(out, [count |-> cnt + 1, white |-> curr])
                      ELSE out)
         ELSE runLoop(b, w, col + 1, 1, b[col],
                      Append(out, [count |-> cnt, white |-> curr]))

\* let count = 1 ; let curr = bmp[0] ; for (col = 0; ...)
runs(b, w) == runLoop(b, w, 0, 1, b[0], << >>)

\* lines.shift()
shift(q) == IF Len(q) = 0 THEN q ELSE Tail(q)
\* lines.pop()
pop(q) == IF Len(q) = 0 THEN q ELSE SubSeq(q, 1, Len(q) - 1)

\* if (padding.left) lines.shift() ; if (padding.right) lines.pop()
trim(q, pad) ==
    LET afterShift == IF pad.left THEN shift(q) ELSE q
    IN  IF pad.right THEN pop(afterShift) ELSE afterShift

getLines(d, w, h) ==
    LET kept == trim(runs(bmp(d, w, h), w), padding(d, w, h))
    IN  [k \in 1 .. Len(kept) |-> kept[k].count]

-----------------------------------------------------------------------------
(* combineAllPossible                                                      *)
(* A string is a sequence of one-character strings; result.split('') is    *)
(* the sequence itself and join('') concatenates.                          *)

\* finalResult[index] of an index never written: undefined
UNDEFINED == "undefined"

\* the comparator as a.length - b.length: ascending length
RECURSIVE insertAscending(_, _)
insertAscending(sorted, x) ==
    IF Len(sorted) = 0 THEN << x >>
    ELSE IF Len(Head(sorted)) <= Len(x)
         THEN << Head(sorted) >> \o insertAscending(Tail(sorted), x)
         ELSE << x >> \o sorted
\* results.sort((a, b) => b.length - a.length): descending length; the sort
\* is stable (ECMAScript 2019), so equal lengths keep their order.  x goes
\* behind every element at least as long as it.
RECURSIVE insertByLength(_, _)
insertByLength(sorted, x) ==
    IF Len(sorted) = 0 THEN << x >>
    ELSE IF Len(Head(sorted)) >= Len(x)
         THEN << Head(sorted) >> \o insertByLength(Tail(sorted), x)
         ELSE << x >> \o sorted

RECURSIVE sortFrom(_, _, _)
sortFrom(arr, k, sorted) ==
    IF k > Len(arr) THEN sorted
    ELSE sortFrom(arr, k + 1, insertByLength(sorted, arr[k]))

sort(arr) == sortFrom(arr, 1, << >>)

\* finalResult[index], index counted from 0
at(finalResult, index) ==
    IF index + 1 <= Len(finalResult) THEN finalResult[index + 1] ELSE UNDEFINED

\* the test left out: every character is written
feasibleAlways(cur) == TRUE
\* !finalResult[index] || finalResult[index] === '?'
feasible(cur) == cur = UNDEFINED \/ cur = "?"

\* finalResult[index] = char === '?' ? '?' : char ; an assignment past the
\* end of the array leaves the indexes between undefined
RECURSIVE assign(_, _, _)
assign(finalResult, index, char) ==
    IF index + 1 <= Len(finalResult)
    THEN [finalResult EXCEPT ![index + 1] = IF char = "?" THEN "?" ELSE char]
    ELSE assign(Append(finalResult, UNDEFINED), index, char)

\* result.split('').forEach((char, index) => ...), from index on
RECURSIVE eachChar(_, _, _)
eachChar(finalResult, result, index) ==
    IF index >= Len(result) THEN finalResult
    ELSE eachChar(IF feasible(at(finalResult, index))
                  THEN assign(finalResult, index, result[index + 1])
                  ELSE finalResult,
                  result, index + 1)

\* if (maxLength === 0 || length === maxLength)
considered(maxLength, length) == maxLength = 0 \/ length = maxLength

\* one step of results.forEach(result => ...), on the locals
\* [maxLength, finalResult]
eachResult(st, result) ==
    IF considered(st.maxLength, Len(result))
    THEN [ maxLength   |-> Len(result),
           finalResult |-> eachChar(st.finalResult, result, 0) ]
    ELSE st

\* the locals after the first k elements of the sorted array
RECURSIVE forEach(_, _)
forEach(sorted, k) ==
    IF k = 0 THEN [maxLength |-> 0, finalResult |-> << >>]
    ELSE eachResult(forEach(sorted, k - 1), sorted[k])

\* finalResult.join(''): an undefined element joins as the empty string
join(finalResult) == SelectSeq(finalResult, LAMBDA c : c # UNDEFINED)

combineAllPossible(arr) ==
    join(forEach(sort(arr), Len(arr)).finalResult)

-----------------------------------------------------------------------------
(* The image pipeline: a caller holds one pixel buffer, may binarize it    *)
(* once with either binarizer, and extracts the lines from it.             *)

\* A pixel buffer of w * h pixels with ch channels each: the colour
\* channels from pix (pixel index -> <<r, g, b>>), a fourth channel opaque.
toData(w, h, ch, pix) ==
    [i \in 0 .. (w * h * ch - 1) |->
        IF i % ch < 3 THEN pix[i \div ch][(i % ch) + 1] ELSE 77]

ChannelCounts == {3, 4}

\* Two-colour images: a background colour and up to MaxOdd pixels of a
\* second colour.  The colour pairs put pixels on both sides of, and on, the
\* midpoint, and give the adaptive binarizer contrast to act on.
PixelPairs ==
    { << <<127, 127, 127>>, <<128, 127, 127>> >>,
      << <<128, 127, 127>>, <<127, 127, 127>> >>,
      << <<10, 20, 30>>,    <<255, 255, 255>> >>,
      << <<255, 255, 255>>, <<10, 20, 30>> >>,
      << <<126, 127, 127>>, <<0, 0, 0>> >>,
      << <<0, 0, 0>>,       <<126, 127, 127>> >> }

idleMerge ==
    /\ candidates = << >>
    /\ results = << >>
    /\ mergeDone = FALSE
    /\ merged = << >>

idleSource ==
    /\ source = [kind |-> "none"]
    /\ env = [isNode |-> FALSE, domThrows |-> FALSE]
    /\ pc = "idle"
    /\ calls = << >>
    /\ promise = "none"

idleImage ==
    /\ data = << >>
    /\ input = << >>
    /\ width = 0
    /\ height = 0
    /\ phase = "idle"
    /\ linesDone = FALSE
    /\ lines = << >>

startImage(d, w, h) ==
    /\ data = d
    /\ input = d
    /\ width = w
    /\ height = h
    /\ phase = "raw"
    /\ linesDone = FALSE
    /\ lines = << >>
    /\ idleMerge
    /\ idleSource

InitBinarizer ==
    \E w \in 1 .. MaxWidth, h \in 1 .. MaxHeight, ch \in ChannelCounts,
       pair \in PixelPairs :
        \E odd \in {o \in SUBSET (0 .. (w * h - 1)) : Cardinality(o) <= MaxOdd} :
            startImage(toData(w, h, ch,
                              [p \in 0 .. (w * h - 1) |->
                                  IF p \in odd THEN pair[2] ELSE pair[1]]),
                       w, h)

InitUniform ==
    \E w \in 1 .. MaxUWidth, h \in 1 .. MaxUHeight, ch \in ChannelCounts,
       g \in 0 .. WHITE :
        startImage(toData(w, h, ch, [p \in 0 .. (w * h - 1) |-> <<g, g, g>>]),
                   w, h)

\* Dark and light pixels, three channels.
InitLines ==
    \E w \in 1 .. MaxLWidth, h \in 1 .. MaxLHeight :
        \E sel \in [0 .. (w * h - 1) -> {<<40, 50, 60>>, <<250, 250, 250>>}] :
            startImage(toData(w, h, 3, sel), w, h)

CallApplySimpleThreshold ==
    /\ phase = "raw"
    /\ ~linesDone
    /\ data' = applySimpleThreshold(data, width, height)
    /\ phase' = "simple"
    /\ UNCHANGED << width, height, input, linesDone, lines >>
    /\ UNCHANGED << mergeVars, sourceVars >>

CallApplyAdaptiveThreshold ==
    /\ phase = "raw"
    /\ ~linesDone
    /\ data' = applyAdaptiveThreshold(data, width, height)
    /\ phase' = "adaptive"
    /\ UNCHANGED << width, height, input, linesDone, lines >>
    /\ UNCHANGED << mergeVars, sourceVars >>

CallGetLines ==
    /\ phase \in {"raw", "simple", "adaptive"}
    /\ ~linesDone
    /\ lines' = getLines(data, width, height)
    /\ linesDone' = TRUE
    /\ UNCHANGED << data, width, height, input, phase >>
    /\ UNCHANGED << mergeVars, sourceVars >>

NextImage ==
    \/ CallApplySimpleThreshold
    \/ CallApplyAdaptiveThreshold
    \/ CallGetLines

SpecBinarizer == InitBinarizer /\ [][NextImage]_vars
SpecUniform   == InitUniform /\ [][NextImage]_vars
SpecLines     == InitLines /\ [][NextImage]_vars

-----------------------------------------------------------------------------
(* getImageDataFromSource                                                  *)
(* A source is described by what the function probes of it: its type, for  *)
(* a string whether the URL pattern matches and whether an element has it  *)
(* as id, for an object its tagName and the truthiness of data, width and  *)
(* height.  env.domThrows says whether the DOM calls of the run            *)
(* (getElementById, createImageData, getContext/getImageData) throw.       *)

TagNames == {"", "IMG", "CANVAS", "DIV"}

Sources ==
    [ kind : {"string"}, urlPattern : BOOLEAN, elemFound : BOOLEAN,
      tagName : {""}, data : {FALSE}, width : {FALSE}, height : {FALSE} ]
    \cup
    [ kind : {"object"}, urlPattern : {FALSE}, elemFound : {FALSE},
      tagName : TagNames, data : BOOLEAN, width : BOOLEAN, height : BOOLEAN ]
    \cup
    [ kind : {"nullish"}, urlPattern : {FALSE}, elemFound : {FALSE},
      tagName : {""}, data : {FALSE}, width : {FALSE}, height : {FALSE} ]

\* return !s[0] === '#' || regexp.test(s): !s[0] is a boolean, never
\* identical to '#', so the pattern alone decides
isUrl(src) == FALSE \/ src.urlPattern

isStringSource(src) == src.kind = "string"
isURLSource(src) == IF isStringSource(src) THEN isUrl(src) ELSE FALSE

\* the promise after a settlement callback: the first settlement stays
settle(p, how) == IF p = "pending" THEN how ELSE p

\* The synchronous part of the executor for a string or object source: the
\* callbacks it invokes, in order, whether it threw, and what it waits for.
executor(src, e) ==
    IF isStringSource(src)
    THEN IF e.isNode
         THEN \* Jimp.read(..., callback)
              [invoked |-> << >>, threw |-> FALSE, next |-> "jimp"]
         ELSE IF isURLSource(src)
         THEN \* img.onerror = reject ; img.onload = ... ; img.src = source
              [invoked |-> << >>, threw |-> FALSE, next |-> "img"]
         ELSE IF e.domThrows
         THEN [invoked |-> << >>, threw |-> TRUE, next |-> "done"]
         ELSE IF src.elemFound
         THEN \* if (imgElem) resolve(...) ; reject(...)
              [invoked |-> << "resolve", "reject" >>, threw |-> FALSE, next |-> "done"]
         ELSE [invoked |-> << "reject" >>, threw |-> FALSE, next |-> "done"]
    ELSE IF src.tagName # ""
    THEN IF src.tagName \in {"IMG", "CANVAS"}
         THEN IF e.domThrows
              THEN [invoked |-> << >>, threw |-> TRUE, next |-> "done"]
              ELSE \* resolve(...) ; reject(...)
                   [invoked |-> << "resolve", "reject" >>, threw |-> FALSE, next |-> "done"]
         ELSE [invoked |-> << "reject" >>, threw |-> FALSE, next |-> "done"]
    ELSE IF src.data /\ src.width /\ src.height
    THEN [invoked |-> << "resolve" >>, threw |-> FALSE, next |-> "done"]
    ELSE [invoked |-> << "reject" >>, threw |-> FALSE, next |-> "done"]

\* the promise after a run of the executor
afterExecutor(run) ==
    IF Len(run.invoked) > 0
    THEN IF run.invoked[1] = "resolve" THEN "fulfilled" ELSE "rejected"
    ELSE IF run.threw THEN "rejected" ELSE "pending"

InitSource ==
    /\ source \in Sources
    /\ env \in [isNode : BOOLEAN, domThrows : BOOLEAN]
    /\ pc = "start"
    /\ calls = << >>
    /\ promise = "pending"
    /\ idleImage
    /\ idleMerge

\* The call up to the return of the promise.  const { tagName } = source
\* throws for null and undefined: the async function's promise is rejected
\* and the executor never runs.
CallGetImageDataFromSource ==
    /\ pc = "start"
    /\ IF source.kind = "nullish"
       THEN /\ calls' = << >>
            /\ promise' = "rejected"
            /\ pc' = "done"
       ELSE LET run == executor(source, env)
            IN  /\ calls' = run.invoked
                /\ promise' = afterExecutor(run)
                /\ pc' = run.next
    /\ UNCHANGED << source, env >>
    /\ UNCHANGED << imageVars, mergeVars >>

\* (err, image) => { if (err) reject(err) else resolve({...}) }
JimpCallback ==
    /\ pc = "jimp"
    /\ \E err \in BOOLEAN :
        /\ calls' = Append(calls, IF err THEN "reject" ELSE "resolve")
        /\ promise' = settle(promise, IF err THEN "rejected" ELSE "fulfilled")
    /\ pc' = "done"
    /\ UNCHANGED << source, env >>
    /\ UNCHANGED << imageVars, mergeVars >>

\* img.onload = () => resolve(createImageData(img)): when createImageData
\* throws, resolve is not reached and the promise stays pending
ImgOnload ==
    /\ pc = "img"
    /\ IF env.domThrows
       THEN UNCHANGED << calls, promise >>
       ELSE /\ calls' = Append(calls, "resolve")
            /\ promise' = settle(promise, "fulfilled")
    /\ pc' = "done"
    /\ UNCHANGED << source, env >>
    /\ UNCHANGED << imageVars, mergeVars >>

\* img.onerror = reject
ImgOnerror ==
    /\ pc = "img"
    /\ calls' = Append(calls, "reject")
    /\ promise' = settle(promise, "rejected")
    /\ pc' = "done"
    /\ UNCHANGED << source, env >>
    /\ UNCHANGED << imageVars, mergeVars >>

NextSource ==
    \/ CallGetImageDataFromSource
    \/ JimpCallback
    \/ ImgOnload
    \/ ImgOnerror

SpecSource == InitSource /\ [][NextSource]_vars

-----------------------------------------------------------------------------
(* Properties of the binarizers.                                           *)

Pixels == 0 .. (width * height - 1)
Ch == channels(data, width, height)
Binarized == phase \in {"simple", "adaptive"}

\* r + g + b of pixel p as the caller passed it
inputSum(p) == input[p * Ch] + input[p * Ch + 1] + input[p * Ch + 2]

\* the three colour channels of pixel p all hold v
colourIs(p, v) ==
    /\ data[p * Ch] = v
    /\ data[p * Ch + 1] = v
    /\ data[p * Ch + 2] = v

\* C1 (as stated): after applySimpleThreshold every pixel's colour channels
\* are 255 when the mean of its three input channels is at least 127
\* (r + g + b >= 381), and 0 otherwise.
C1_MeanAtLeastMidpoint ==
    phase = "simple" =>
        \A p \in Pixels :
            colourIs(p, IF inputSum(p) >= 381 THEN 255 ELSE 0)

\* C1 (amended): after applySimpleThreshold every pixel's colour channels
\* are 255 when the mean of its three input channels is strictly greater
\* than 127 (r + g + b > 381), and 0 otherwise; a mean of exactly 127 gives 0.
C1_MeanAboveMidpoint ==
    phase = "simple" =>
        \A p \in Pixels :
            colourIs(p, IF inputSum(p) > 381 THEN 255 ELSE 0)

\* applySimpleThreshold has run on an image holding a pixel r = g = b = 127,
\* which became 0, and a pixel of mean just above 127, which became 255.
C1_Witness ==
    /\ phase = "simple"
    /\ \E p \in Pixels :
        /\ input[p * Ch] = 127 /\ input[p * Ch + 1] = 127 /\ input[p * Ch + 2] = 127
        /\ colourIs(p, 0)
    /\ \E p \in Pixels : inputSum(p) = 382 /\ colourIs(p, 255)

\* C7: after either binarizer, each pixel's first three channels hold one
\* value, and that value is 0 or 255.
C7_OnlyBlackAndWhite ==
    Binarized =>
        \A p \in Pixels : colourIs(p, 0) \/ colourIs(p, 255)

\* applyAdaptiveThreshold has run on a four-channel image with a pixel whose
\* channels differ from each other, and left both a black and a white pixel.
C7_Witness ==
    /\ phase = "adaptive"
    /\ Ch = 4
    /\ \E p \in Pixels : input[p * Ch] # input[p * Ch + 1]
    /\ \E p \in Pixels : colourIs(p, 0)
    /\ \E p \in Pixels : colourIs(p, 255)

\* C8: applyAdaptiveThreshold maps an image whose pixels all have the grey
\* value g to an all-255 image, and at every pixel the window sum read from
\* the integral image is g times the window's pixel count (here times 3).
C8_UniformStaysWhite ==
    phase = "adaptive" =>
        LET g == input[0]
            ii == integralImage3(input, width, height)
        IN  \A p \in Pixels :
                /\ colourIs(p, 255)
                /\ windowSum3(ii, width, height, p % width, p \div width)
                     = 3 * g * count(width, height, p % width, p \div width)

\* applyAdaptiveThreshold has run on a uniform image of non-zero grey value
\* wide enough for a half-window of 2, with a window clamped at a corner.
C8_Witness ==
    /\ phase = "adaptive"
    /\ input[0] = 200
    /\ s2(width) = 2
    /\ height >= 3
    /\ count(width, height, 0, 0) = 4
    /\ \A p \in Pixels : colourIs(p, 255)

\* C9: applyAdaptiveThreshold never thresholds with a half-window of 0: for
\* width < 4 the half-window is clamped to at least 1 or the call ends in an
\* error, so a call that returned thresholded pixels used s2 >= 1.
C9_NoDegenerateWindow ==
    phase = "adaptive" => s2(width) >= 1

-----------------------------------------------------------------------------
(* Properties of getLines.                                                 *)

\* The maximal runs of equal values of b, left to right, each with its true
\* width in columns and its colour: the run-length coding the claims speak
\* of, against which the loop of getLines is compared.
RECURSIVE trueRunsFrom(_, _, _, _)
trueRunsFrom(b, w, col, out) ==
    IF col >= w THEN out
    ELSE IF Len(out) > 0 /\ out[Len(out)].white = b[col]
         THEN trueRunsFrom(b, w, col + 1,
                  [out EXCEPT ![Len(out)].count = out[Len(out)].count + 1])
         ELSE trueRunsFrom(b, w, col + 1,
                  Append(out, [count |-> 1, white |-> b[col]]))

TrueRuns == trueRunsFrom(bmp(data, width, height), width, 0, << >>)

counts(q) == [k \in 1 .. Len(q) |-> q[k].count]

RECURSIVE SumSeq(_)
SumSeq(q) == IF Len(q) = 0 THEN 0 ELSE Head(q) + SumSeq(Tail(q))

Pad == padding(data, width, height)

\* the true widths of the edge runs that the detected padding trims
TrimmedWidth ==
    LET n == Len(TrueRuns)
    IN  (IF Pad.left THEN TrueRuns[1].count ELSE 0)
        + (IF Pad.right /\ (n >= 2 \/ ~Pad.left) THEN TrueRuns[n].count ELSE 0)

LinesOfBinarized == linesDone /\ Binarized

\* C2: for a binarized image the run lengths getLines returns are all >= 1
\* and sum to width minus the true widths of the trimmed edge runs (to
\* width when no padding is trimmed).
C2_RunLengthsSumToWidth ==
    LinesOfBinarized =>
        /\ \A k \in 1 .. Len(lines) : lines[k] >= 1
        /\ SumSeq(lines) = width - TrimmedWidth

\* C3: for a binarized image of height >= 2 whose first and last columns
\* are white by the column vote and white in the last row, getLines returns
\* exactly the true widths, in order, of the runs strictly between the
\* leading and the trailing white run.
C3_InteriorRunsExact ==
    ( /\ LinesOfBinarized
      /\ height >= 2
      /\ bmp(data, width, height)[0]
      /\ bmp(data, width, height)[width - 1]
      /\ lastValue(data, width, height, 0) = 255
      /\ lastValue(data, width, height, width - 1) = 255 )
    => lines = counts(pop(shift(TrueRuns)))

\* the runs the loop of getLines pushed, before trimming
Pushed == runs(bmp(data, width, height), width)

\* C4: getLines trims only white padding: a run removed from the front or
\* from the back of the pushed runs is a run of columns classified white.
C4_TrimsOnlyWhite ==
    LinesOfBinarized =>
        /\ (Pad.left /\ Len(Pushed) > 0) => Pushed[1].white
        /\ (Pad.right /\ Len(IF Pad.left THEN shift(Pushed) ELSE Pushed) > 0)
               => Pushed[Len(Pushed)].white

-----------------------------------------------------------------------------
(* The merger: a caller holds a collection of candidates and merges it.    *)

Alphabet == {"1", "2", "?"}

Strings == UNION { [1 .. n -> Alphabet] : n \in 0 .. MaxStrLen }

Collections == UNION { [1 .. n -> Strings] : n \in 0 .. MaxCands }

InitMerge ==
    /\ candidates \in Collections
    /\ results = candidates
    /\ mergeDone = FALSE
    /\ merged = << >>
    /\ idleImage
    /\ idleSource

\* the call returns the merged string and leaves the array sorted
CallCombineAllPossible ==
    /\ ~mergeDone
    /\ merged' = combineAllPossible(results)
    /\ results' = sort(results)
    /\ mergeDone' = TRUE
    /\ UNCHANGED candidates
    /\ UNCHANGED << imageVars, sourceVars >>

NextMerge == CallCombineAllPossible

SpecMerge == InitMerge /\ [][NextMerge]_vars

-----------------------------------------------------------------------------
(* Properties of combineAllPossible.                                       *)

\* the longest candidate's length, 0 for an empty collection
LongestLength(coll) ==
    IF Len(coll) = 0 THEN 0
    ELSE CHOOSE n \in {Len(coll[k]) : k \in 1 .. Len(coll)} :
            \A k \in 1 .. Len(coll) : Len(coll[k]) <= n

\* the candidates of maximum length, in the caller's order
Longest(coll) == SelectSeq(coll, LAMBDA c : Len(c) = LongestLength(coll))

\* the character the claim gives position p (from 1): that of the first
\* maximum-length candidate, in the caller's order, that is definite at p;
\* '?' when there is none
FirstDefinite(coll, p) ==
    LET longest == Longest(coll)
        definite == {k \in 1 .. Len(longest) : longest[k][p] # "?"}
    IN  IF definite = {} THEN "?"
        ELSE longest[CHOOSE k \in definite : \A m \in definite : k <= m][p]

\* C5: at each position the result holds the character of the first
\* maximum-length candidate, in the caller's order, that is not '?' there,
\* and '?' exactly when all of them have '?' there; while the candidates are
\* consumed a definite character, once written, stays, and a '?' replaces
\* nothing but a '?'.
C5_FirstDefiniteWins ==
    mergeDone =>
        /\ merged = [p \in 1 .. LongestLength(candidates) |->
                        FirstDefinite(candidates, p)]
        /\ \A k \in 1 .. Len(results) :
              LET before == forEach(results, k - 1).finalResult
                  after  == forEach(results, k).finalResult
              IN  \A p \in 1 .. Len(before) :
                    /\ Len(after) >= Len(before)
                    /\ before[p] \notin {"?", UNDEFINED} => after[p] = before[p]
                    /\ after[p] = "?" => before[p] = "?"

\* combineAllPossible has merged two candidates of equal length that are
\* definite, and differ, at one position, and where the second fills a '?'
\* of the first.
C5_Witness ==
    /\ mergeDone
    /\ Len(candidates) = 2
    /\ Len(candidates[1]) = 2
    /\ Len(candidates[2]) = 2
    /\ candidates[1][1] = "1" /\ candidates[2][1] = "2"
    /\ candidates[1][2] = "?" /\ candidates[2][2] = "2"
    /\ merged = << "1", "2" >>

\* C6: the result is as long as the longest candidate (empty for an empty
\* collection), and it is the result of merging the maximum-length
\* candidates alone: shorter candidates, wherever they stand, change nothing.
C6_ShorterIgnored ==
    mergeDone =>
        /\ Len(merged) = LongestLength(candidates)
        /\ merged = combineAllPossible(Longest(candidates))

\* combineAllPossible has merged a collection in which a strictly shorter,
\* definite candidate stands before a longer one.
C6_Witness ==
    /\ mergeDone
    /\ Len(candidates) = 2
    /\ Len(candidates[1]) = 1
    /\ Len(candidates[2]) = 2
    /\ candidates[1][1] = "2"
    /\ candidates[2][1] = "?"
    /\ merged = candidates[2]

-----------------------------------------------------------------------------
(* Properties of getImageDataFromSource.                                   *)

\* the source is one of the recognized variants: a string in Node, a URL
\* string, the id of an element, an IMG or CANVAS element, a pixel object
Recognized ==
    \/ source.kind = "string" /\ (env.isNode \/ source.urlPattern \/ source.elemFound)
    \/ source.kind = "object" /\ source.tagName \in {"IMG", "CANVAS"}
    \/ source.kind = "object" /\ source.tagName = ""
         /\ source.data /\ source.width /\ source.height

\* C10: on every path exactly one settlement callback is invoked, exactly
\* once: never a second one (so never reject after resolve), one by the time
\* the last handler has run, and resolve only for a recognized source.
C10_SettlesExactlyOnce ==
    /\ Len(calls) <= 1
    /\ pc = "done" => Len(calls) = 1
    /\ (\E k \in 1 .. Len(calls) : calls[k] = "resolve") => Recognized

====
